---- MODULE Spec2Model ----
(***************************************************************************)
(* A model of maybenot's machine module (src/src/machine.rs): the Machine  *)
(* value, Machine::validate, Machine::serialize, Machine::from_str with    *)
(* parse_v1_machine, and Machine::name.                                    *)
(*                                                                         *)
(* Bytes are the integers 0..255 and a buffer is a sequence of bytes.  An  *)
(* f64 is its little-endian IEEE-754 byte pattern (a sequence of 8 bytes), *)
(* so that writing and reading one is the bit copy byteorder performs and  *)
(* NaN, 0.0 and -0.0 keep the comparison behaviour they have in Rust.  The *)
(* numeric value of a pattern is kept in units of 1/10000.                 *)
(***************************************************************************)
EXTENDS Integers, Sequences, FiniteSets, TLC

VARIABLES
    m,       \* the Machine the author built (machine.rs:24-38)
    pc,      \* where the session is: new, validated, serialized, tampered, decoded, named
    vres,    \* what validate(m) returned ("none" before the call)
    wire,    \* the encoded string on its way to Machine::from_str
    out,     \* what Machine::from_str(wire) did
    other,   \* a second Machine, equal to m under the derived PartialEq
    names    \* <<name(m), name(other)>> once both were computed

vars == <<m, pc, vres, wire, out, other, names>>

----------------------------------------------------------------------------
(* Bounds of the model.                                                    *)

\* The longest state vector an authored machine holds is STATEMAX + ExtraStates.
ExtraStates == 1

----------------------------------------------------------------------------
(* f64 values: IEEE-754 bit patterns, least significant byte first.        *)

F64Zero      == <<0, 0, 0, 0, 0, 0, 0, 0>>                \*  0.0
F64NegZero   == <<0, 0, 0, 0, 0, 0, 0, 128>>              \* -0.0
F64Tiny      == <<45, 67, 28, 235, 226, 54, 42, 63>>      \*  0.0002
F64Eps       == <<252, 169, 241, 210, 77, 98, 64, 63>>    \*  0.0005
F64Half      == <<0, 0, 0, 0, 0, 0, 224, 63>>             \*  0.5
F64One       == <<0, 0, 0, 0, 0, 0, 240, 63>>             \*  1.0
F64Two       == <<0, 0, 0, 0, 0, 0, 0, 64>>               \*  2.0
F64NegHalf   == <<0, 0, 0, 0, 0, 0, 224, 191>>            \* -0.5
F64NaN       == <<0, 0, 0, 0, 0, 0, 248, 127>>            \*  NaN

IsNaN(f) == f = F64NaN

\* The value of a pattern, in units of 1/10000 (NaN has none).
F64Val(f) ==
    CASE f = F64Zero    -> 0
      [] f = F64NegZero -> 0
      [] f = F64Tiny    -> 2
      [] f = F64Eps     -> 5
      [] f = F64Half    -> 5000
      [] f = F64One     -> 10000
      [] f = F64Two     -> 20000
      [] f = F64NegHalf -> 0 - 5000

\* Rust's f64 comparisons: every ordered comparison with a NaN is false, and
\* == compares values, so that 0.0 == -0.0 and NaN != NaN.
F64Lt(a, b) == ~IsNaN(a) /\ ~IsNaN(b) /\ F64Val(a) < F64Val(b)
F64Gt(a, b) == F64Lt(b, a)
F64Eq(a, b) == ~IsNaN(a) /\ ~IsNaN(b) /\ F64Val(a) = F64Val(b)

----------------------------------------------------------------------------
(* The parts of the crate that machine.rs uses and that live in other      *)
(* files: constants, events, distributions and states.                     *)

\* constants::VERSION, the only version Machine::from_str accepts.
VERSION == 1

\* constants::STATEMAX. The model takes a small value so that a machine with
\* exactly STATEMAX states, and one with more, are among the inputs.
STATEMAX == 2

\* event::Event::iterator(): the event kinds, in wire order.
Events == <<"NonPaddingRecv", "PaddingRecv", "NonPaddingSent", "PaddingSent",
            "BlockingBegin", "BlockingEnd", "LimitReached">>

EventSet == {Events[i] : i \in 1..Len(Events)}

\* dist::DistType, with the tag each kind is written as.
DistTypes == <<"None", "Uniform", "Geometric", "Pareto">>

\* constants::SERIALIZEDDISTSIZE: a 2-byte kind tag and four f64.
SERIALIZEDDISTSIZE == 2 + 4 * 8

DistNone == [dist |-> "None", param1 |-> F64Zero, param2 |-> F64Zero,
             start |-> F64Zero, max |-> F64Zero]

\* dist::Dist::validate: the parameters lie in the domain of the kind.
DistValidate(d) ==
    CASE d.dist = "None"      -> TRUE
      [] d.dist = "Uniform"   -> ~F64Gt(d.param1, d.param2)
      [] d.dist = "Geometric" -> ~F64Lt(d.param1, F64Zero) /\ ~F64Gt(d.param1, F64One)
                                 /\ ~IsNaN(d.param1)
      [] d.dist = "Pareto"    -> F64Gt(d.param1, F64Zero) /\ F64Gt(d.param2, F64Zero)

----------------------------------------------------------------------------
(* Machine::validate (machine.rs:77-145).  The result is "ok" or a tag     *)
(* naming the bail! that returned.                                         *)

\* machine.rs:79 and :85: the test each fraction goes through.
FracOutOfRange(f) == F64Lt(f, F64Zero) \/ F64Gt(f, F64One)

\* The upper test on the count off by one.
StateCountError_OffByOne(n) ==
    IF n = 0 THEN "no_states"
    ELSE IF n >= STATEMAX THEN "too_many_states"
    ELSE "ok"

\* machine.rs:93-102: the two tests on the number of states.
StateCountError(n) ==
    IF n = 0 THEN "no_states"
    ELSE IF n > STATEMAX THEN "too_many_states"
    ELSE "ok"

\* machine.rs:118: (&0.0..=&1.0).contains(&p), that is 0.0 <= p && p <= 1.0.
InUnitRange(p) == ~IsNaN(p) /\ ~F64Lt(p, F64Zero) /\ ~F64Gt(p, F64One)

RECURSIVE SumVals(_)
\* machine.rs:116-122: p_total, the sum of the entries, in units of 1/10000.
SumVals(v) == IF v = <<>> THEN 0 ELSE F64Val(Head(v)) + SumVals(Tail(v))

\* machine.rs:129: the literal 1.0005, in units of 1/10000.
PTotalLimit == 10005

\* The sum test with the limit itself accepted.
PTotalRejected_LimitAccepted(total) == total <= 0 \/ total > PTotalLimit

\* machine.rs:129: p_total <= 0.0 || p_total >= 1.0005.
PTotalRejected(total) == total <= 0 \/ total >= PTotalLimit

\* The length test rejecting only the vectors that are too small, as the
\* message of machine.rs:110 has it.
VecError_TooSmallOnly(v, n) ==
    IF Len(v) < n + 2 THEN "next_state_len"
    ELSE IF \E i \in 1..Len(v) : ~InUnitRange(v[i]) THEN "probability"
    ELSE IF PTotalRejected(SumVals(v)) THEN "p_total"
    ELSE "ok"

\* machine.rs:108-135: what one next_state entry does to validate, in a
\* machine of n states.
VecError(v, n) ==
    IF Len(v) # n + 2 THEN "next_state_len"
    ELSE IF \E i \in 1..Len(v) : ~InUnitRange(v[i]) THEN "probability"
    ELSE IF PTotalRejected(SumVals(v)) THEN "p_total"
    ELSE "ok"

\* machine.rs:105-142: the errors one state can end validate with.  The
\* entries of next_state are visited in the map's iteration order, which is
\* not fixed, so any entry that fails can be the one that is reported; the
\* distributions are looked at only when every entry passed.
StateErrors(s, n) ==
    LET bad == {e \in DOMAIN s.next_state : VecError(s.next_state[e], n) # "ok"}
    IN  IF bad # {} THEN {VecError(s.next_state[e], n) : e \in bad}
        ELSE IF ~DistValidate(s.action) THEN {"dist_action"}
        ELSE IF ~DistValidate(s.limit) THEN {"dist_limit"}
        ELSE IF ~DistValidate(s.timeout) THEN {"dist_timeout"}
        ELSE {}

\* validate with the tests grouped by kind instead of by state: the vectors
\* of every state first, the distributions of every state after them.
ValidateResults_VectorsFirst(mm) ==
    LET n == Len(mm.states)
        vecErrs(i) == {VecError(mm.states[i].next_state[e], n) :
                          e \in DOMAIN mm.states[i].next_state} \ {"ok"}
        badVec == {i \in 1..n : vecErrs(i) # {}}
        failing == {i \in 1..n : StateErrors(mm.states[i], n) # {}}
        firstVec == CHOOSE i \in badVec : \A j \in badVec : i <= j
        first == CHOOSE i \in failing : \A j \in failing : i <= j
    IN  IF FracOutOfRange(mm.max_padding_frac) THEN {"max_padding_frac"}
        ELSE IF FracOutOfRange(mm.max_blocking_frac) THEN {"max_blocking_frac"}
        ELSE IF StateCountError(n) # "ok" THEN {StateCountError(n)}
        ELSE IF badVec # {} THEN vecErrs(firstVec)
        ELSE IF failing = {} THEN {"ok"}
        ELSE StateErrors(mm.states[first], n)

\* machine.rs:77-145: every result validate can return for mm.
ValidateResults(mm) ==
    LET n == Len(mm.states)
        failing == {i \in 1..n : StateErrors(mm.states[i], n) # {}}
        first == CHOOSE i \in failing : \A j \in failing : i <= j
    IN  IF FracOutOfRange(mm.max_padding_frac) THEN {"max_padding_frac"}
        ELSE IF FracOutOfRange(mm.max_blocking_frac) THEN {"max_blocking_frac"}
        ELSE IF StateCountError(n) # "ok" THEN {StateCountError(n)}
        ELSE IF failing = {} THEN {"ok"}
        ELSE StateErrors(mm.states[first], n)

\* validate(mm) returns Ok(()).
ValidateOk(mm) == ValidateResults(mm) = {"ok"}

----------------------------------------------------------------------------
(* Byte-level helpers (byteorder's LittleEndian readers and writers).      *)
(* Integers of the model stay below 2^31, so the upper four bytes of a u64 *)
(* are zero.                                                               *)

RECURSIVE ConcatAll(_)
\* The concatenation of a sequence of buffers (successive write_all calls).
ConcatAll(ss) == IF ss = <<>> THEN <<>> ELSE Head(ss) \o ConcatAll(Tail(ss))

WriteU16(x) == <<x % 256, (x \div 256) % 256>>
ReadU16(b) == b[1] + 256 * b[2]

WriteU64(x) == <<x % 256, (x \div 256) % 256, (x \div 65536) % 256,
                 (x \div 16777216) % 256, 0, 0, 0, 0>>
ReadU64(b) == b[1] + 256 * b[2] + 65536 * b[3] + 16777216 * b[4]

WriteBool(b) == IF b THEN <<1>> ELSE <<0>>

\* The byte range [from, to) of a buffer, offsets counted from 0 as in Rust.
Slice(buf, from, to) == SubSeq(buf, from + 1, to)

----------------------------------------------------------------------------
(* dist.rs and state.rs: the fixed-size blocks a state is written as.      *)

DistTag(kind) == (CHOOSE i \in 1..Len(DistTypes) : DistTypes[i] = kind) - 1

\* dist::Dist::serialize: the kind tag, then param1, param2, start, max.
DistSerialize(d) ==
    WriteU16(DistTag(d.dist)) \o d.param1 \o d.param2 \o d.start \o d.max

\* dist::parse_dist: fails on a tag that names no kind.
ParseDist(b) ==
    LET tag == ReadU16(Slice(b, 0, 2))
    IN  IF tag >= Len(DistTypes)
        THEN [ok |-> FALSE, dist |-> DistNone]
        ELSE [ok |-> TRUE,
              dist |-> [dist |-> DistTypes[tag + 1],
                        param1 |-> Slice(b, 2, 10), param2 |-> Slice(b, 10, 18),
                        start |-> Slice(b, 18, 26), max |-> Slice(b, 26, 34)]]

\* The size of one state block in a machine of n states (machine.rs:210-211).
ExpectedStateLen(n) == 3 * SERIALIZEDDISTSIZE + 4 + (n + 2) * 8 * Len(Events)

\* state::State::serialize(num_states): three distributions, four flag bytes
\* (the last one reserved), then for every event kind, in order, a dense
\* vector of num_states + 2 doubles, all zero when the event has no entry.
StateSerialize(s, n) ==
    LET cells == [j \in 1..(Len(Events) * (n + 2)) |->
                    LET e == Events[((j - 1) \div (n + 2)) + 1]
                        i == ((j - 1) % (n + 2)) + 1
                    IN  IF e \in DOMAIN s.next_state THEN s.next_state[e][i]
                        ELSE F64Zero]
    IN  DistSerialize(s.action) \o DistSerialize(s.limit) \o DistSerialize(s.timeout)
        \o WriteBool(s.action_is_block) \o WriteBool(s.limit_includes_nonpadding)
        \o WriteBool(s.replace) \o <<0>>
        \o ConcatAll(cells)

\* state::parse_state(buf, num_states): the inverse; an event whose vector
\* is all zero (v != 0.0 for no entry) gets no entry in next_state.
ParseState(b, n) ==
    LET D == SERIALIZEDDISTSIZE
        action == ParseDist(Slice(b, 0, D))
        limit == ParseDist(Slice(b, D, 2 * D))
        timeout == ParseDist(Slice(b, 2 * D, 3 * D))
        base == 3 * D + 4
        vec(k) == [i \in 1..(n + 2) |->
                     LET at == base + ((k - 1) * (n + 2) + (i - 1)) * 8
                     IN  Slice(b, at, at + 8)]
        present == {k \in 1..Len(Events) :
                      \E i \in 1..(n + 2) : ~F64Eq(vec(k)[i], F64Zero)}
    IN  IF Len(b) < ExpectedStateLen(n) \/ ~action.ok \/ ~limit.ok \/ ~timeout.ok
        THEN [ok |-> FALSE]
        ELSE [ok |-> TRUE,
              state |-> [action |-> action.dist,
                         action_is_block |-> b[3 * D + 1] = 1,
                         limit |-> limit.dist,
                         limit_includes_nonpadding |-> b[3 * D + 2] = 1,
                         timeout |-> timeout.dist,
                         replace |-> b[3 * D + 3] = 1,
                         next_state |-> [e \in {Events[k] : k \in present} |->
                            vec(CHOOSE k \in 1..Len(Events) : Events[k] = e)]]]

----------------------------------------------------------------------------
(* The encoded string.  hex::encode and the zlib Encoder are libraries     *)
(* outside the repository; a string is modelled by what their decoders     *)
(* make of it: whether it is hexadecimal text, whether the bytes start     *)
(* with a zlib header, whether the deflate body and its checksum are       *)
(* intact, and the bytes the body inflates to.                             *)

\* machine.rs:175-180: Encoder::new, write_all, finish, then hex::encode.
HexZlibEncode(bytes) == [hex |-> TRUE, header |-> TRUE, body |-> TRUE, data |-> bytes]

\* machine.rs:167-168: self.states.len() as u16.
NumStatesField(mm) == Len(mm.states) % 65536

\* machine.rs:149-173: the version-tagged binary layout of mm.
Layout(mm) ==
    WriteU16(VERSION)
    \o WriteU64(mm.allowed_padding_bytes)
    \o mm.max_padding_frac
    \o WriteU64(mm.allowed_blocked_microsec)
    \o mm.max_blocking_frac
    \o WriteBool(mm.include_small_packets)
    \o WriteU16(NumStatesField(mm))
    \o ConcatAll([i \in 1..Len(mm.states) |->
                    StateSerialize(mm.states[i], Len(mm.states))])

\* machine.rs:148-181: Machine::serialize.
Serialize(mm) == HexZlibEncode(Layout(mm))

----------------------------------------------------------------------------
(* Machine::from_str and parse_v1_machine.  A result is                    *)
(*   kind     "Ok", "Err" or "Panic" (an unwrap or a slice that panicked), *)
(*   msg      the error, or the place of the panic,                        *)
(*   machine  the Machine of an Ok,                                        *)
(*   v1       whether parse_v1_machine was entered,                        *)
(*   slices   how many state blocks the loop of machine.rs:222 sliced,     *)
(*   r        the read offset parse_v1_machine stopped at,                 *)
(*   total    the value of expected_state_len * num_states that the length *)
(*            test of machine.rs:212 used, as limbs; <<>> when the         *)
(*            multiplication did not return.                               *)

NoMachine == [allowed_padding_bytes |-> 0, max_padding_frac |-> F64Zero,
              allowed_blocked_microsec |-> 0, max_blocking_frac |-> F64Zero,
              states |-> <<>>, include_small_packets |-> FALSE]

Failure(kind, msg, v1, slices, r) ==
    [kind |-> kind, msg |-> msg, machine |-> NoMachine, v1 |-> v1,
     slices |-> slices, r |-> r, total |-> <<>>]

\* machine.rs:186: the size of the fixed header that follows the version.
V1HeaderLen == 4 * 8 + 1 + 2

\* usize (machine.rs:206, :210): the width of a machine word is the
\* target's, 32 or 64 bits.
UsizeBits == {32, 64}

\* A build of the crate: the width of usize and whether arithmetic overflow
\* is checked (a panic, the default of debug builds) or wraps (the default
\* of release builds).
Builds == [bits : UsizeBits, overflow_checks : BOOLEAN]

\* A non-negative integer as four 16-bit limbs, least significant first;
\* here of a number below 2^31.
Limbs(x) == <<x % 65536, x \div 65536, 0, 0>>

\* The mathematical product a * b as limbs, for a < 2^22 and b < 2^16: the
\* partial products are kept below 2^31.
WideMul(a, b) ==
    LET al == a % 65536
        ah == a \div 65536
        bl == b % 256
        bh == b \div 256
        low == al * bl + ((al * bh) % 256) * 256
        high == (al * bh) \div 256 + ah * b + low \div 65536
    IN  <<low % 65536, high % 65536, high \div 65536, 0>>

\* w modulo 2^bits.
Truncate(w, bits) == [i \in 1..4 |-> IF i <= bits \div 16 THEN w[i] ELSE 0]

\* machine.rs:212: expected_state_len * num_states in plain usize
\* arithmetic.  A product that does not fit the word panics where overflow
\* is checked and wraps where it is not.
UsizeMul(a, b, build) ==
    LET w == WideMul(a, b)
    IN  IF Truncate(w, build.bits) = w THEN [panic |-> FALSE, value |-> w]
        ELSE IF build.overflow_checks THEN [panic |-> TRUE, value |-> <<>>]
        ELSE [panic |-> FALSE, value |-> Truncate(w, build.bits)]

\* machine.rs:212: the test that lets the state loop run, on the product
\* the build computed.
StateRegionMatches(remaining, total) == Limbs(remaining) = total

RECURSIVE ParseStates(_, _, _, _, _)
\* machine.rs:221-226: the state loop, with `left` blocks still to read.
\* A slice that ends beyond the buffer panics, and so does the unwrap of a
\* parse_state that failed.
ParseStates(buf, r, left, num_states, acc) ==
    LET len == ExpectedStateLen(num_states)
        s == ParseState(Slice(buf, r, r + len), num_states)
    IN  IF left = 0 THEN [panic |-> "", states |-> acc, slices |-> Len(acc), r |-> r]
        ELSE IF r + len > Len(buf)
        THEN [panic |-> "slice out of range", states |-> acc,
              slices |-> Len(acc), r |-> r]
        ELSE IF ~s.ok
        THEN [panic |-> "parse_state unwrap", states |-> acc,
              slices |-> Len(acc) + 1, r |-> r]
        ELSE ParseStates(buf, r + len, left - 1, num_states, Append(acc, s.state))

\* ValidateDecoded without the call of validate.
ValidateDecoded_Skipped(mm, slices, r) ==
    {[kind |-> "Ok", msg |-> "", machine |-> mm, v1 |-> TRUE,
      slices |-> slices, r |-> r, total |-> <<>>]}

\* machine.rs:236-237: m.validate()? and Ok(m).
ValidateDecoded(mm, slices, r) ==
    IF ValidateOk(mm)
    THEN {[kind |-> "Ok", msg |-> "", machine |-> mm, v1 |-> TRUE,
           slices |-> slices, r |-> r, total |-> <<>>]}
    ELSE {Failure("Err", e, TRUE, slices, r) : e \in ValidateResults(mm)}

\* machine.rs:184-238: parse_v1_machine as one build runs it.
ParseV1MachineOn(buf, build) ==
    LET num_states == ReadU16(Slice(buf, 33, 35))
        total == UsizeMul(ExpectedStateLen(num_states), num_states, build)
        loop == ParseStates(buf, V1HeaderLen, num_states, num_states, <<>>)
        mm == [allowed_padding_bytes |-> ReadU64(Slice(buf, 0, 8)),
               max_padding_frac |-> Slice(buf, 8, 16),
               allowed_blocked_microsec |-> ReadU64(Slice(buf, 16, 24)),
               max_blocking_frac |-> Slice(buf, 24, 32),
               include_small_packets |-> buf[33] = 1,
               states |-> loop.states]
    IN  IF Len(buf) < V1HeaderLen
        THEN {Failure("Err", "not enough data for version 1 machine", TRUE, 0, 0)}
        ELSE IF total.panic
        THEN {Failure("Panic", "multiply with overflow", TRUE, 0, V1HeaderLen)}
        ELSE {[res EXCEPT !.total = total.value] : res \in
                IF ~StateRegionMatches(Len(buf) - V1HeaderLen, total.value)
                THEN {Failure("Err", "expected bytes for states", TRUE, 0, V1HeaderLen)}
                ELSE IF loop.panic # ""
                THEN {Failure("Panic", loop.panic, TRUE, loop.slices, loop.r)}
                ELSE ValidateDecoded(mm, loop.slices, loop.r)}

\* parse_v1_machine: the set of results it can return, over the builds.
ParseV1Machine(buf) == UNION {ParseV1MachineOn(buf, build) : build \in Builds}

\* The version match looking at the low byte of the tag only.
VersionAccepted_LowByte(version) == version[1] = 1

\* machine.rs:57-60: the match on the version tag.
VersionAccepted(version) == ReadU16(version) = 1

\* machine.rs:43-61: Machine::from_str; the set of results it can return.
FromStr(s) ==
    IF ~s.hex THEN {Failure("Err", "failed to decode hex", FALSE, 0, 0)}
    ELSE IF ~s.header THEN {Failure("Err", "not in zlib format", FALSE, 0, 0)}
    ELSE IF ~s.body THEN {Failure("Panic", "read_to_end unwrap", FALSE, 0, 0)}
    ELSE IF Len(s.data) < 2 THEN {Failure("Err", "cannot read version", FALSE, 0, 0)}
    ELSE IF ~VersionAccepted(Slice(s.data, 0, 2))
    THEN {Failure("Err", "unsupported version", FALSE, 0, 0)}
    ELSE ParseV1Machine(Slice(s.data, 2, Len(s.data)))

----------------------------------------------------------------------------
(* The derived PartialEq (machine.rs:23) and Machine::name.                *)

VecEq(a, b) == Len(a) = Len(b) /\ \A i \in 1..Len(a) : F64Eq(a[i], b[i])

DistEq(a, b) ==
    /\ a.dist = b.dist
    /\ F64Eq(a.param1, b.param1) /\ F64Eq(a.param2, b.param2)
    /\ F64Eq(a.start, b.start) /\ F64Eq(a.max, b.max)

StateEq(a, b) ==
    /\ DistEq(a.action, b.action) /\ DistEq(a.limit, b.limit)
    /\ DistEq(a.timeout, b.timeout)
    /\ a.action_is_block = b.action_is_block
    /\ a.limit_includes_nonpadding = b.limit_includes_nonpadding
    /\ a.replace = b.replace
    /\ DOMAIN a.next_state = DOMAIN b.next_state
    /\ \A e \in DOMAIN a.next_state : VecEq(a.next_state[e], b.next_state[e])

\* machine.rs:23: #[derive(PartialEq)] on Machine, field by field; two f64
\* are equal when their values are, whatever their bit patterns.
MachineEq(a, b) ==
    /\ a.allowed_padding_bytes = b.allowed_padding_bytes
    /\ F64Eq(a.max_padding_frac, b.max_padding_frac)
    /\ a.allowed_blocked_microsec = b.allowed_blocked_microsec
    /\ F64Eq(a.max_blocking_frac, b.max_blocking_frac)
    /\ a.include_small_packets = b.include_small_packets
    /\ Len(a.states) = Len(b.states)
    /\ \A i \in 1..Len(a.states) : StateEq(a.states[i], b.states[i])

\* machine.rs:67-73: the first 32 hexadecimal characters of the SHA-256 of
\* the serialized string.  The hash is kept symbolic and taken to be free of
\* collisions: two names are equal exactly when the hashed strings are.
Name(mm) == [sha256_first_128_bits_of |-> Serialize(mm)]

----------------------------------------------------------------------------
(* The machines an author builds: bounded families of Machine values,      *)
(* valid and invalid, around the fixtures of the tests (machine.rs:246-551)*)

MaxStates == STATEMAX + ExtraStates

Dist(kind, p1, p2, start, max) ==
    [dist |-> kind, param1 |-> p1, param2 |-> p2, start |-> start, max |-> max]

State(action, aib, limit, lin, timeout, replace, ns) ==
    [action |-> action, action_is_block |-> aib, limit |-> limit,
     limit_includes_nonpadding |-> lin, timeout |-> timeout, replace |-> replace,
     next_state |-> ns]

Machine(apb, mpf, abm, mbf, isp, states) ==
    [allowed_padding_bytes |-> apb, max_padding_frac |-> mpf,
     allowed_blocked_microsec |-> abm, max_blocking_frac |-> mbf,
     states |-> states, include_small_packets |-> isp]

\* A vector for a machine of n states with p at position t and 0.0 elsewhere.
OneHot(n, t, p) == [i \in 1..(n + 2) |-> IF i = t THEN p ELSE F64Zero]

NoTransitions == [e \in {} |-> <<>>]

\* The no-op state of tests::parse_v1_machine_nop.
NopState == State(DistNone, FALSE, DistNone, FALSE, DistNone, FALSE, NoTransitions)

\* A padding state as in tests::parse_v1_machine_padding.
PadState(n, t) ==
    State(Dist("Geometric", F64Half, F64Zero, F64Eps, F64One), FALSE,
          DistNone, FALSE,
          Dist("Uniform", F64Half, F64One, F64Tiny, F64Two), TRUE,
          [e \in {"PaddingSent"} |-> OneHot(n, t, F64One)])

\* A blocking state as in tests::parse_v1_machine_blocking.
BlockState(n, t) ==
    State(Dist("Pareto", F64One, F64Two, F64Zero, F64Zero), TRUE,
          DistNone, FALSE, DistNone, FALSE,
          [e \in {"BlockingEnd"} |-> OneHot(n, t, F64One)])

\* A state with several entries, some mass on the two reserved columns.
SplitState(n) ==
    State(DistNone, FALSE,
          Dist("Pareto", F64Half, F64One, F64Tiny, F64Two), TRUE,
          DistNone, FALSE,
          [e \in {"PaddingRecv", "NonPaddingRecv", "LimitReached"} |->
             CASE e = "PaddingRecv" ->
                    [i \in 1..(n + 2) |-> IF i \in {1, n + 1} THEN F64Half ELSE F64Zero]
               [] e = "NonPaddingRecv" ->
                    [i \in 1..(n + 2) |-> IF i = n THEN F64Half
                                          ELSE IF i = n + 2 THEN F64Tiny ELSE F64Zero]
               [] e = "LimitReached" -> OneHot(n, n + 2, F64One)])

\* A state whose action distribution is outside its domain.
BadDistState == [NopState EXCEPT !.action = Dist("Geometric", F64Two, F64Zero, F64Zero, F64Zero)]

\* A state with an entry whose vector sums to 0.
ZeroVecState(n) ==
    [NopState EXCEPT !.next_state = [e \in {"PaddingSent"} |-> OneHot(n, 1, F64Zero)]]

StateVariants(n) ==
    {NopState, PadState(n, 1), BlockState(n, n), SplitState(n), BadDistState,
     ZeroVecState(n)}

Fracs == {F64Zero, F64NegZero, F64Half, F64One, F64Two, F64NegHalf, F64NaN}

Probs == {F64Zero, F64Tiny, F64Eps, F64Half, F64One, F64NegHalf, F64NaN}

\* <<allowed_padding_bytes, allowed_blocked_microsec, include_small_packets>>
Headers == {<<0, 0, FALSE>>, <<1000, 2000, TRUE>>, <<70000, 16777219, FALSE>>}

\* Every pair of fractions, over an empty, a one-state and a two-state machine.
FracMachines ==
    {Machine(h[1], p, h[2], b, h[3], ss) :
        h \in Headers, p \in Fracs, b \in Fracs,
        ss \in {<<>>, <<PadState(1, 1)>>, <<SplitState(2), BlockState(2, 1)>>}}

\* Machines of 0 .. MaxStates states.
CountMachines ==
    {Machine(1000, F64Half, 2000, F64One, TRUE, ss) :
        ss \in UNION {{[i \in 1..n |-> NopState],
                       [i \in 1..n |-> PadState(n, i)],
                       [i \in 1..n |-> BlockState(n, (i % n) + 1)]} : n \in 0..MaxStates}}

\* One- and two-state machines over the state variants.
VariantMachines ==
    {Machine(0, F64Zero, 100000, F64Half, TRUE, ss) :
        ss \in {<<s>> : s \in StateVariants(1)}
               \cup {<<s, u>> : s \in StateVariants(2), u \in StateVariants(2)}}

\* One-state machines with a single entry: every vector of the right length
\* over Probs, and vectors one entry too short and one too long.
Vectors ==
    {<<a, b, c>> : a \in Probs, b \in Probs, c \in Probs}
    \cup {<<a, b>> : a \in {F64Zero, F64Half, F64One}, b \in {F64Zero, F64Half, F64One}}
    \cup {<<a, b, F64Zero, c>> : a \in {F64Zero, F64Half, F64One},
                                 b \in {F64Zero, F64Half}, c \in {F64Zero, F64Half}}

VectorMachines ==
    {Machine(0, F64Zero, 0, F64Zero, FALSE,
             <<[NopState EXCEPT !.next_state = [e \in {"BlockingBegin"} |-> v]]>>) :
        v \in Vectors}

\* One-state machines with two entries, each good or bad in its own way.
EntryKinds ==
    {<<F64Half, F64Half, F64Zero>>, <<F64One, F64Zero>>, <<F64Two, F64Zero, F64Zero>>,
     <<F64Zero, F64Zero, F64Zero>>, <<F64One, F64One, F64Zero>>}

TwoEntryMachines ==
    {Machine(0, F64Zero, 0, F64Zero, FALSE,
             <<[BadDistState EXCEPT !.next_state =
                  [e \in {"PaddingSent", "LimitReached"} |->
                     IF e = "PaddingSent" THEN v ELSE w]]>>) :
        v \in EntryKinds, w \in EntryKinds}

Machines ==
    FracMachines \cup CountMachines \cup VariantMachines \cup VectorMachines
    \cup TwoEntryMachines

----------------------------------------------------------------------------
(* What can reach Machine::from_str instead of the string that was sent.   *)

\* buf with the bytes from offset `at` on overwritten by `bytes`.
Overwrite(buf, at, bytes) ==
    [i \in 1..Len(buf) |->
        IF i > at /\ i <= at + Len(bytes) THEN bytes[i - at] ELSE buf[i]]

VersionTags == {0, 2, 256, 257}

\* Values of the num_states field far beyond STATEMAX: the largest count
\* whose state region is below 2^32 bytes, the next one, one whose region
\* modulo 2^32 is small, and the largest u16.
LargeCounts == {8755, 8756, 45504, 65535}

\* The strings an untrusted sender can make of the encoded string s.
Tampered(s) ==
    LET d == s.data
        n == Len(d)
    IN  {[s EXCEPT !.hex = FALSE], [s EXCEPT !.header = FALSE],
         [s EXCEPT !.body = FALSE]}
        \cup {[s EXCEPT !.data = Overwrite(d, 0, WriteU16(v))] : v \in VersionTags}
        \cup {[s EXCEPT !.data = SubSeq(d, 1, k)] :
                k \in {0, 1, 2, 2 + SERIALIZEDDISTSIZE, n - 1}}
        \cup {[s EXCEPT !.data = d \o <<0>>]}
        \cup {[s EXCEPT !.data = Overwrite(d, 35, WriteU16(k))] :
                k \in (0..MaxStates) \cup LargeCounts}
        \cup {[s EXCEPT !.data = Overwrite(d, 10, f)] : f \in {F64Two, F64NaN}}

----------------------------------------------------------------------------
(* The state machine: an author builds a machine, validates it, serializes *)
(* it; the string, or what became of it on the way, is decoded; the names  *)
(* of the machine and of an equal machine are computed.                    *)

NoWire == [hex |-> FALSE, header |-> FALSE, body |-> FALSE, data |-> <<>>]

NoResult == Failure("none", "", FALSE, 0, 0)

\* The machines field-equal to mm up to the sign of a zero fraction.
ZeroFlips(f) == IF f \in {F64Zero, F64NegZero} THEN {F64Zero, F64NegZero} ELSE {f}

EqualMachines(mm) ==
    {x \in {[mm EXCEPT !.max_padding_frac = p, !.max_blocking_frac = b] :
              p \in ZeroFlips(mm.max_padding_frac),
              b \in ZeroFlips(mm.max_blocking_frac)} : MachineEq(mm, x)}

\* state::State::serialize reads exactly num_states + 2 entries of every
\* vector: only machines whose vectors have that length are written.
Serializable(mm) ==
    \A i \in 1..Len(mm.states) : \A e \in DOMAIN mm.states[i].next_state :
        Len(mm.states[i].next_state[e]) = Len(mm.states) + 2

Init ==
    /\ m \in Machines
    /\ pc = "new"
    /\ vres = "none"
    /\ wire = NoWire
    /\ out = NoResult
    /\ other = NoMachine
    /\ names = <<>>

\* m.validate()
DoValidate ==
    /\ pc = "new"
    /\ vres' \in ValidateResults(m)
    /\ pc' = "validated"
    /\ UNCHANGED <<m, wire, out, other, names>>

\* m.serialize()
DoSerialize ==
    /\ pc = "validated"
    /\ Serializable(m)
    /\ wire' = Serialize(m)
    /\ pc' = "serialized"
    /\ UNCHANGED <<m, vres, out, other, names>>

\* The string is replaced on its way to the decoder.
Tamper ==
    /\ pc = "serialized"
    /\ wire' \in Tampered(wire)
    /\ pc' = "tampered"
    /\ UNCHANGED <<m, vres, out, other, names>>

\* Machine::from_str(wire)
DoFromStr ==
    /\ pc \in {"serialized", "tampered"}
    /\ out' \in FromStr(wire)
    /\ pc' = "decoded"
    /\ UNCHANGED <<m, vres, wire, other, names>>

\* m.name() and x.name() for a machine x == m
DoName ==
    /\ pc = "validated"
    /\ Serializable(m)
    /\ \E x \in EqualMachines(m) :
          /\ other' = x
          /\ names' = <<Name(m), Name(x)>>
    /\ pc' = "named"
    /\ UNCHANGED <<m, vres, wire, out>>

Next == DoValidate \/ DoSerialize \/ Tamper \/ DoFromStr \/ DoName

Spec == Init /\ [][Next]_vars

----------------------------------------------------------------------------
(* Mathematical readings used by the properties below.                     *)

\* x lies in the real interval [0, 1]; a NaN lies in no interval.
WithinUnit(x) == ~IsNaN(x) /\ F64Val(x) >= 0 /\ F64Val(x) <= 10000

\* The bytes the decoder was given, after the 2-byte version tag.
Payload == Slice(wire.data, 2, Len(wire.data))

\* The string decodes and inflates: from_str gets to look at the bytes.
Inflates == wire.hex /\ wire.header /\ wire.body

\* Everything validate checks apart from the two fractions holds of mm.
RestValid(mm) ==
    LET n == Len(mm.states)
    IN  /\ n >= 1 /\ n <= STATEMAX
        /\ \A i \in 1..n :
              /\ \A e \in DOMAIN mm.states[i].next_state :
                    VecError(mm.states[i].next_state[e], n) = "ok"
              /\ DistValidate(mm.states[i].action)
              /\ DistValidate(mm.states[i].limit)
              /\ DistValidate(mm.states[i].timeout)

----------------------------------------------------------------------------
(* Properties.                                                             *)

\* C1: round trip: whenever validate(m) is Ok, decoding serialize(m) returns
\* Ok(m') with m' == m under the derived PartialEq.
C1_RoundTrip ==
    (pc = "decoded" /\ wire = Serialize(m) /\ ValidateOk(m))
        => (out.kind = "Ok" /\ MachineEq(out.machine, m))

\* C2: decoding never panics: Machine::from_str ends with Ok or Err for
\* every input string.
C2_DecodeNeverPanics == pc = "decoded" => out.kind \in {"Ok", "Err"}

C4_VersionGate ==
    (pc = "decoded" /\ Inflates /\ Len(wire.data) >= 2)
        => IF wire.data[1] = 1 /\ wire.data[2] = 0
           THEN out.v1
           ELSE out.kind = "Err" /\ out.msg = "unsupported version" /\ ~out.v1

\* C4 witness: a valid version-1 payload of a validated machine behind the
\* tag 257, whose low byte is 1, was refused.
C4_Witness ==
    /\ pc = "decoded" /\ Inflates /\ ValidateOk(m)
    /\ Len(wire.data) >= 2
    /\ Slice(wire.data, 0, 2) = <<1, 1>>
    /\ Payload = Slice(Layout(m), 2, Len(Layout(m)))
    /\ out.msg = "unsupported version"

\* C5: state-region length: with per_state_size = 3*DIST_SIZE + 4 +
\* (num_states + 2)*8*NUM_EVENT_KINDS, a payload whose bytes after the
\* 35-byte header are not exactly per_state_size * num_states is refused
\* before any state block is sliced; otherwise every slice lies within the
\* buffer and the loop ends at the end of the buffer.
C5_StateRegionLength ==
    (pc = "decoded" /\ out.v1 /\ Len(Payload) >= 35)
        => LET n == Payload[34] + 256 * Payload[35]
               per_state_size == 3 * 34 + 4 + (n + 2) * 8 * 7
               rest == Len(Payload) - 35
               exact == IF n = 0 THEN rest = 0
                        ELSE rest % n = 0 /\ rest \div n = per_state_size
           IN  IF ~exact
               THEN out.kind = "Err" /\ out.slices = 0
                    /\ out.msg = "expected bytes for states"
               ELSE /\ out.msg # "slice out of range"
                    /\ out.kind # "Panic" => (out.slices = n /\ out.r = Len(Payload))

\* The machine passes every check of validate that comes before the range
\* and sum tests of the transition vectors or after them.
OtherwiseValid(mm) ==
    LET n == Len(mm.states)
    IN  /\ WithinUnit(mm.max_padding_frac) /\ WithinUnit(mm.max_blocking_frac)
        /\ n >= 1 /\ n <= STATEMAX
        /\ \A i \in 1..n :
              /\ \A e \in DOMAIN mm.states[i].next_state :
                    Len(mm.states[i].next_state[e]) = n + 2
              /\ DistValidate(mm.states[i].action)
              /\ DistValidate(mm.states[i].limit)
              /\ DistValidate(mm.states[i].timeout)

\* Every entry of every vector of mm is in [0, 1] and every vector's sum s
\* has 0 < s and s <= top (top excluded when strict), in units of 1/10000.
VectorsAccepted(mm, top, strict) ==
    \A i \in 1..Len(mm.states) : \A e \in DOMAIN mm.states[i].next_state :
        LET v == mm.states[i].next_state[e]
        IN  /\ \A k \in 1..Len(v) : WithinUnit(v[k])
            /\ SumVals(v) > 0
            /\ IF strict THEN SumVals(v) < top ELSE SumVals(v) <= top

\* C6 as stated: for an otherwise valid machine validate returns Ok exactly
\* when every vector has its entries in [0.0, 1.0] and a sum s with
\* 0.0 < s <= 1.0005; a sum of exactly 1.0005 is accepted.
C6_SumUpToLimitAccepted ==
    (pc = "validated" /\ OtherwiseValid(m))
        => (vres = "ok" <=> VectorsAccepted(m, 10005, FALSE))

\* C6 as amended: for an otherwise valid machine validate returns Ok exactly
\* when every vector has its entries in [0.0, 1.0] and a sum s with
\* 0.0 < s < 1.0005; a sum of exactly 1.0005 is rejected.
C6_SumBelowLimitAccepted ==
    (pc = "validated" /\ OtherwiseValid(m))
        => (vres = "ok" <=> VectorsAccepted(m, 10005, TRUE))

\* C6 witness: an otherwise valid machine with a vector of entries in [0, 1]
\* whose sum is exactly 1.0005 was validated, and rejected for its sum.
C6_Witness ==
    /\ pc = "validated" /\ OtherwiseValid(m)
    /\ \E i \in 1..Len(m.states) : \E e \in DOMAIN m.states[i].next_state :
          /\ \A k \in 1..Len(m.states[i].next_state[e]) :
                WithinUnit(m.states[i].next_state[e][k])
          /\ SumVals(m.states[i].next_state[e]) = 10005
    /\ vres = "p_total"

\* C7: fraction bounds, on the machines that pass every other check (on the
\* others validate fails whatever the fractions are): validate returns an
\* error if and only if max_padding_frac or max_blocking_frac lies outside
\* [0.0, 1.0].
C7_FractionBounds ==
    (pc = "validated" /\ RestValid(m))
        => (vres # "ok" <=>
              (~WithinUnit(m.max_padding_frac) \/ ~WithinUnit(m.max_blocking_frac)))

C9_ShapeInvariant ==
    pc = "validated"
        => LET n == Len(m.states)
               misshapen == \E i \in 1..n : \E e \in DOMAIN m.states[i].next_state :
                               Len(m.states[i].next_state[e]) # n + 2
           IN  /\ misshapen => vres # "ok"
               /\ vres = "ok" => ~misshapen

\* C9 witness: a machine with a vector one entry too long, good fractions
\* and a good state count, was rejected for the vector's length.
C9_Witness ==
    /\ pc = "validated" /\ vres = "next_state_len"
    /\ \E i \in 1..Len(m.states) : \E e \in DOMAIN m.states[i].next_state :
          Len(m.states[i].next_state[e]) = Len(m.states) + 3

\* C10: identity determinism: two machines equal under the derived PartialEq
\* serialize to the same string and therefore have the same name.
C10_EqualMachinesEqualNames ==
    pc = "named" => (Serialize(m) = Serialize(other) /\ names[1] = names[2])

\* The results of validate that come from a transition vector, and those
\* that come from a distribution.
VectorErrors == {"next_state_len", "probability", "p_total"}

DistErrors == {"dist_action", "dist_limit", "dist_timeout"}

\* Some transition vector of state s fails its shape, range or sum test in a
\* machine of n states.
HasBadVector(s, n) ==
    \E e \in DOMAIN s.next_state : VecError(s.next_state[e], n) # "ok"

\* Some distribution of state s fails its own validation.
HasBadDist(s) ==
    ~DistValidate(s.action) \/ ~DistValidate(s.limit) \/ ~DistValidate(s.timeout)

\* The fraction tests and the state-count tests of validate let mm through.
StatesExamined(mm) ==
    /\ ~FracOutOfRange(mm.max_padding_frac)
    /\ ~FracOutOfRange(mm.max_blocking_frac)
    /\ StateCountError(Len(mm.states)) = "ok"

\* The result validate returned is the one the tests before the states give.
HeaderOrderKept ==
    LET n == Len(m.states)
    IN  /\ FracOutOfRange(m.max_padding_frac) => vres = "max_padding_frac"
        /\ (~FracOutOfRange(m.max_padding_frac)
              /\ FracOutOfRange(m.max_blocking_frac)) => vres = "max_blocking_frac"
        /\ (~FracOutOfRange(m.max_padding_frac)
              /\ ~FracOutOfRange(m.max_blocking_frac)
              /\ StateCountError(n) # "ok") => vres = StateCountError(n)

\* C11 as stated: validate tests the fractions, then the state count, then
\* the transition vectors of every state, then the distributions of every
\* state, and returns the first failure in that order; when some state has
\* an invalid vector and some state, even an earlier one, has an invalid
\* distribution, the error is the vector's.
C11_VectorsBeforeAllDists ==
    pc = "validated"
        => LET n == Len(m.states)
               anyVec == \E i \in 1..n : HasBadVector(m.states[i], n)
               anyDist == \E i \in 1..n : HasBadDist(m.states[i])
           IN  /\ HeaderOrderKept
               /\ StatesExamined(m)
                    => /\ anyVec => vres \in VectorErrors
                       /\ (~anyVec /\ anyDist) => vres \in DistErrors
                       /\ (~anyVec /\ ~anyDist) => vres = "ok"

\* C11, amended: validate tests the fractions, then the state count, then
\* the states one by one in index order, for each state its transition
\* vectors and then its action, limit and timeout distributions, and returns
\* the first failure in that order: the error comes from the first state
\* that has any failure, and is a vector's when that state has an invalid
\* vector.
C11_StateByStateOrder ==
    pc = "validated"
        => LET n == Len(m.states)
               failing == {i \in 1..n : HasBadVector(m.states[i], n)
                                          \/ HasBadDist(m.states[i])}
               f == CHOOSE i \in failing : \A j \in failing : i <= j
               s == m.states[f]
           IN  /\ HeaderOrderKept
               /\ (StatesExamined(m) /\ failing = {}) => vres = "ok"
               /\ (StatesExamined(m) /\ failing # {})
                    => IF HasBadVector(s, n)
                       THEN \E e \in DOMAIN s.next_state :
                               /\ VecError(s.next_state[e], n) # "ok"
                               /\ vres = VecError(s.next_state[e], n)
                       ELSE IF ~DistValidate(s.action) THEN vres = "dist_action"
                       ELSE IF ~DistValidate(s.limit) THEN vres = "dist_limit"
                       ELSE vres = "dist_timeout"

\* C11 witness: the first state has sound vectors and an invalid
\* distribution, the second state has an invalid vector, and validate
\* returned the first state's distribution error.
C11_Witness ==
    /\ pc = "validated" /\ StatesExamined(m) /\ Len(m.states) = 2
    /\ ~HasBadVector(m.states[1], 2) /\ HasBadDist(m.states[1])
    /\ HasBadVector(m.states[2], 2)
    /\ vres \in DistErrors

\* C12: overflow-free size formula: for every num_states a u16 can hold the
\* decoder computes per_state_size = 3*DIST_SIZE + 4 + (num_states + 2)*8*
\* NUM_EVENT_KINDS and per_state_size * num_states in checked or widened
\* arithmetic: on every build, 32-bit words included, the multiplication
\* neither panics nor wraps, and the length is compared with the
\* mathematical product (or, the product not fitting the word, the decode
\* returns an error without comparing).
C12_SizeFormulaNeverWraps ==
    (pc = "decoded" /\ out.v1 /\ Len(Payload) >= 35)
        => LET n == Payload[34] + 256 * Payload[35]
               per_state_size == 3 * 34 + 4 + (n + 2) * 8 * 7
           IN  /\ out.msg # "multiply with overflow"
               /\ \/ out.total = WideMul(per_state_size, n)
                  \/ out.kind = "Err" /\ out.total = <<>>

====
